---- MODULE Spec2Model ----
(***************************************************************************)
(* Disclosure session of bot.py: the per-chat dictionary chat_data         *)
(* (obj_map, code_shown, hide_task, details_msg_id), the three handlers    *)
(* start_command, refresh_callback and show_code_callback, and the two     *)
(* background tasks auto_hide_code and delete_details_message.             *)
(*                                                                         *)
(* One chat is modelled.  The application dispatches updates one at a      *)
(* time, so at most one handler is active (pc # "idle"); a handler is cut  *)
(* into atomic steps at the awaits at which the event loop can run another *)
(* task.  fetch_user_objects contains no await that suspends (gspread is   *)
(* synchronous), so the fetch belongs to the step that calls it.  A        *)
(* transport call (send, edit, delete) takes effect when it is issued.     *)
(* The leading "await query.answer()" and the "loading" reply of           *)
(* start_command touch no session state, so they are merged into the       *)
(* first step of their handler.                                            *)
(***************************************************************************)
EXTENDS Integers, Sequences, FiniteSets, TLC

\* ---------------------------------------------------------------- bounds
MaxObjects == 2          \* catalogue ids are 1..MaxObjects
MaxMsgs == 2             \* list messages created over a run (/start replies)
MaxTasks == 3            \* reveals (auto_hide_code tasks created) over a run
MaxWork == 4             \* list messages plus reveals over a run
MaxExprLen == 5          \* characters of a range expression given to the parser
MaxRows == 3             \* rows of the sheet read by one fetch
MaxKeys == 3             \* keys of an obj_map given to build_keyboard alone
MaxTextLen == 20         \* characters of an address or a code

Objects == 1..MaxObjects

\* Python None, and a missing chat_data key read with .get()
None == 0

COLS == 2

\* ------------------------------------------------------------ data source
\* The dicts fetch_user_objects can build, as their key order.  The sheet
\* catalogues the objects in id order and the user's range is "1-n", for
\* every n up to MaxObjects (n = 0: no id of the range is catalogued).
ObjMaps == {[i \in 1..n |-> i] : n \in 0..MaxObjects}

\* What one call of fetch_user_objects can return.  "unauth": no row carries
\* the user's id (None).  "fail": the sheet could not be read, the exception
\* is logged and None is returned.  "ok": a dict, possibly empty.
FetchResults ==
    {[st |-> "unauth", ids |-> <<>>], [st |-> "fail", ids |-> <<>>]}
        \cup {[st |-> "ok", ids |-> s] : s \in ObjMaps}

\* The value the caller sees: None for both "unauth" and "fail".
IsNone(f) == f.st # "ok"

Keys(om) == {om[i] : i \in DOMAIN om}

\* ----------------------------------------------------------- range parser
\* The elements of a Python list.
Elems(s) == {s[i] : i \in DOMAIN s}

\* A Python str is the sequence of its characters.
IsSpace(c) == c = " "

DigitValue == [c \in {"0", "1", "2", "3", "4", "5", "6", "7", "8", "9"} |->
                 CASE c = "0" -> 0 [] c = "1" -> 1 [] c = "2" -> 2
                   [] c = "3" -> 3 [] c = "4" -> 4 [] c = "5" -> 5
                   [] c = "6" -> 6 [] c = "7" -> 7 [] c = "8" -> 8
                   [] c = "9" -> 9]

IsDigit(c) == c \in DOMAIN DigitValue

Contains(s, c) == \E i \in DOMAIN s : s[i] = c

\* Index of the first occurrence of c in s (c occurs in s).
Find(s, c) == CHOOSE i \in DOMAIN s : s[i] = c /\ \A j \in 1..(i - 1) : s[j] # c

\* str.split(sep): every piece between separators, empty pieces included.
RECURSIVE split(_, _)
split(s, sep) ==
    IF ~Contains(s, sep) THEN <<s>>
    ELSE LET i == Find(s, sep)
         IN  <<SubSeq(s, 1, i - 1)>> \o split(SubSeq(s, i + 1, Len(s)), sep)

\* str.split(sep, 1) of a string that contains sep: cut at the first one.
split1(s, sep) ==
    LET i == Find(s, sep) IN <<SubSeq(s, 1, i - 1), SubSeq(s, i + 1, Len(s))>>

\* str.strip(): leading and trailing whitespace removed.
RECURSIVE lstrip(_)
lstrip(s) == IF s # <<>> /\ IsSpace(Head(s)) THEN lstrip(Tail(s)) ELSE s

RECURSIVE rstrip(_)
rstrip(s) ==
    IF s # <<>> /\ IsSpace(s[Len(s)]) THEN rstrip(SubSeq(s, 1, Len(s) - 1)) ELSE s

strip(s) == lstrip(rstrip(s))

\* Value of a string of decimal digits.
RECURSIVE DecimalValue(_)
DecimalValue(s) ==
    IF s = <<>> THEN 0
    ELSE 10 * DecimalValue(SubSeq(s, 1, Len(s) - 1)) + DigitValue[s[Len(s)]]

AllDigits(s) == s # <<>> /\ \A i \in DOMAIN s : IsDigit(s[i])

ValueError == [ok |-> FALSE, val |-> 0]

\* int(str): surrounding whitespace is ignored, one leading sign is allowed,
\* the rest must be decimal digits; anything else raises ValueError.
int(s) ==
    LET t == strip(s)
        signed == t # <<>> /\ Head(t) \in {"-", "+"}
        d == IF signed THEN Tail(t) ELSE t
    IN  IF ~AllDigits(d) THEN ValueError
        ELSE [ok |-> TRUE,
              val |-> IF signed /\ Head(t) = "-" THEN 0 - DecimalValue(d)
                      ELSE DecimalValue(d)]

\* range(start, end + 1) for a range the code has found to satisfy
\* start <= end.
RangePart_Swapped(start, end) ==
    IF start <= end THEN start..end ELSE end..start

RangePart(start, end) == IF start <= end THEN start..end ELSE {}

\* What one part of the expression adds to ids: the body of the for loop,
\* with "continue" on an empty part and on ValueError.
part_ids(part) ==
    LET p == strip(part)
    IN  IF p = <<>> THEN {}
        ELSE IF Contains(p, "-")
            THEN LET halves == split1(p, "-")
                     start == int(halves[1])
                     end == int(halves[2])
                 IN  IF start.ok /\ end.ok THEN RangePart(start.val, end.val)
                     ELSE {}
            ELSE LET v == int(p) IN IF v.ok THEN {v.val} ELSE {}

\* sorted(ids), mutated: descending.
sorted_Descending(ids) ==
    IF ids = {} THEN <<>>
    ELSE LET lo == CHOOSE x \in ids : \A y \in ids : x <= y
             hi == CHOOSE x \in ids : \A y \in ids : y <= x
         IN  SelectSeq([i \in 1..(hi - lo + 1) |-> hi + 1 - i], LAMBDA x : x \in ids)

\* sorted(ids): the elements of the set as a list in ascending order: the
\* integers from the least to the greatest element that are in the set.
sorted(ids) ==
    IF ids = {} THEN <<>>
    ELSE LET lo == CHOOSE x \in ids : \A y \in ids : x <= y
             hi == CHOOSE x \in ids : \A y \in ids : y <= x
         IN  SelectSeq([i \in 1..(hi - lo + 1) |-> lo + i - 1], LAMBDA x : x \in ids)

\* The for loop over range_str.split(","): ids after the parts from i on.
RECURSIVE PartsLoop(_, _, _)
PartsLoop(parts, i, ids) ==
    IF i > Len(parts) THEN ids
    ELSE PartsLoop(parts, i + 1, ids \cup part_ids(parts[i]))

\* A Python value given as range_str: a str, None, or an int.
Str(chars) == [type |-> "str", chars |-> chars]
PyNone == [type |-> "NoneType", chars |-> <<>>]
PyInt == [type |-> "int", chars |-> <<>>]

parse_id_ranges(range_str) ==
    IF range_str.type # "str" \/ range_str.chars = <<>> THEN <<>>
    ELSE sorted(PartsLoop(split(range_str.chars, ","), 1, {}))

\* Characters the expressions of the model are written with.
ExprChars == {"1", "2", "-", ",", " ", "x"}

RECURSIVE StringsUpTo(_)
StringsUpTo(n) ==
    IF n = 0 THEN {<<>>}
    ELSE LET shorter == StringsUpTo(n - 1)
         IN  shorter \cup {Append(w, c) : w \in {x \in shorter : Len(x) = n - 1},
                                           c \in ExprChars}

RangeStrs == {Str(w) : w \in StringsUpTo(MaxExprLen)} \cup {PyNone, PyInt}

\* ---------------------------------------------------------- catalog lookup
\* A row of the sheet as get_all_records returns it: the ID cell (a number,
\* or a str when the cell is empty or not numeric), the user id in the
\* access column, and the range expression in the information column.
Number(n) == [type |-> "int", val |-> n]

IdCells == {Number(n) : n \in Objects} \cup {Str(<<>>), Str(<<"x">>)}

UserId == "u"

InfoCells == {<<"1", "-", "2">>, <<"2", ",", "1">>, <<"2">>, <<"x">>}

Rows == [ID : IdCells, access : {UserId, "v"}, info : InfoCells]

RECURSIVE ListsUpTo(_, _)
ListsUpTo(S, n) ==
    IF n = 0 THEN {<<>>}
    ELSE LET shorter == ListsUpTo(S, n - 1)
         IN  shorter \cup {Append(w, x) : w \in {y \in shorter : Len(y) = n - 1},
                                           x \in S}

Sheets == ListsUpTo(Rows, MaxRows)

\* The first row whose access column is the user's id, 0 if there is none.
user_record(records, user_id) ==
    IF \E i \in DOMAIN records : records[i].access = user_id
        THEN CHOOSE i \in DOMAIN records :
                 /\ records[i].access = user_id
                 /\ \A j \in 1..(i - 1) : records[j].access # user_id
        ELSE 0

\* int(raw_id) of an ID cell.
int_cell(raw_id) ==
    IF raw_id.type = "int" THEN [ok |-> TRUE, val |-> raw_id.val]
    ELSE int(raw_id.chars)

\* obj_map[obj_id] = {...} on a dict given by its key order: a new key goes
\* to the end, an existing key keeps its place.  The value stored (address,
\* code and details of the row) does not affect the keys and is left out.
DictSet(keys, obj_id) ==
    IF obj_id \in Elems(keys) THEN keys ELSE Append(keys, obj_id)

\* The second loop over the rows: the keys of obj_map after the rows from i on.
RECURSIVE RowsLoop(_, _, _, _)
RowsLoop(records, i, target_ids, keys) ==
    IF i > Len(records) THEN keys
    ELSE LET raw_id == records[i].ID
             obj_id == int_cell(raw_id)
         IN  IF raw_id = Str(<<>>) \/ ~obj_id.ok
                    \/ obj_id.val \notin Elems(target_ids)
                 THEN RowsLoop(records, i + 1, target_ids, keys)
                 ELSE RowsLoop(records, i + 1, target_ids, DictSet(keys, obj_id.val))

\* fetch_user_objects on the rows the sheet returns; raises: reading the
\* sheet raised an exception.
fetch_user_objects(user_id, records, raises) ==
    IF raises THEN [st |-> "fail", ids |-> <<>>]
    ELSE LET u == user_record(records, user_id)
         IN  IF u = 0 THEN [st |-> "unauth", ids |-> <<>>]
             ELSE LET target_ids == parse_id_ranges(Str(records[u].info))
                  IN  IF target_ids = <<>> THEN [st |-> "ok", ids |-> <<>>]
                      ELSE [st |-> "ok",
                            ids |-> RowsLoop(records, 1, target_ids, <<>>)]

\* ---------------------------------------------------------------- layout
RefreshButton == [kind |-> "refresh", id |-> None]

\* One object button: the code label for the revealed id, else the address;
\* callback_data is show_<id> in both cases.
ObjButton(obj_id, code_shown_obj_id) ==
    IF obj_id = code_shown_obj_id
        THEN [kind |-> "code", id |-> obj_id]
        ELSE [kind |-> "addr", id |-> obj_id]

Min(a, b) == IF a < b THEN a ELSE b

\* build_keyboard, mutated: the buttons of a row in reverse order.
build_keyboard_RowReversed(obj_map, code_shown_obj_id) ==
    LET n == Len(obj_map)
        nrows == (n + COLS - 1) \div COLS
        w(r) == Min(COLS, n - (r - 1) * COLS)
        row(r) == [j \in 1..w(r) |->
                      ObjButton(obj_map[(r - 1) * COLS + w(r) + 1 - j], code_shown_obj_id)]
    IN  [r \in 1..nrows |-> row(r)] \o <<<<RefreshButton>>>>

\* build_keyboard: rows of COLS buttons in key order, then the refresh row.
build_keyboard(obj_map, code_shown_obj_id) ==
    LET n == Len(obj_map)
        nrows == (n + COLS - 1) \div COLS
        row(r) == [j \in 1..Min(COLS, n - (r - 1) * COLS) |->
                      ObjButton(obj_map[(r - 1) * COLS + j], code_shown_obj_id)]
    IN  [r \in 1..nrows |-> row(r)] \o <<<<RefreshButton>>>>

build_no_access_keyboard == <<<<RefreshButton>>>>

\* Characters that f"🔑 Код: {data['code']} 🔑" adds around the code.
CODE_LABEL_EXTRA == 9

\* Characters of "🔄 ОБНОВИТЬ".
REFRESH_LABEL_LEN == 10

\* len(button_text) of a button, data giving for each id the lengths of its
\* address and of its code.
button_text_len(b, data) ==
    CASE b.kind = "code" -> CODE_LABEL_EXTRA + data[b.id].code
      [] b.kind = "addr" -> data[b.id].address
      [] OTHER -> REFRESH_LABEL_LEN

\* The buttons of a keyboard, the ids whose code it displays, and the ids
\* it offers a show_<id> button for.
Buttons(kb) == UNION {{kb[r][c] : c \in DOMAIN kb[r]} : r \in DOMAIN kb}
CodesIn(kb) == {b.id : b \in {x \in Buttons(kb) : x.kind = "code"}}
ShowIds(kb) == {b.id : b \in {x \in Buttons(kb) : x.kind # "refresh"}}
HasRefresh(kb) == RefreshButton \in Buttons(kb)

\* Transport edits of a list message: edit_message_text replaces the text
\* and the keyboard (no reply_markup removes the keyboard),
\* edit_message_reply_markup replaces the keyboard alone.  The texts are
\* "loading", "noaccess", "empty", "list" and "notfound".
Message(text, kb) == [text |-> text, kb |-> kb]
edit_message_text(ms, m, text, kb) == [ms EXCEPT ![m] = Message(text, kb)]
edit_message_reply_markup(ms, m, kb) == [ms EXCEPT ![m] = Message(ms[m].text, kb)]

\* ----------------------------------------------------------------- state
VARIABLES
    obj_map,         \* chat_data["obj_map"]: key order of the dict, <<>> if unset
    code_shown,      \* chat_data["code_shown"]: object id or None
    hide_task,       \* chat_data["hide_task"]: id of an auto_hide_code task or None
    details_msg_id,  \* chat_data["details_msg_id"]: details message id or None
    tasks,           \* auto_hide_code tasks not yet finished nor cancelled
    nTasks,          \* number of auto_hide_code tasks created so far
    msgs,            \* list messages of the chat: text and inline keyboard
    details,         \* details messages not yet deleted; each has its
                     \* delete_details_message task asleep
    pc,              \* await at which the running handler is suspended, or "idle"
    h,               \* locals of the running handler
    obs,             \* history: what the last step and the last handlers did
    calc             \* one call of a pure function: its argument and its result

chat == <<obj_map, code_shown, hide_task, details_msg_id>>
bot == <<obj_map, code_shown, hide_task, details_msg_id, tasks, nTasks,
         msgs, details, pc, h, obs>>
vars == <<obj_map, code_shown, hide_task, details_msg_id, tasks, nTasks,
          msgs, details, pc, h, obs, calc>>

NoLocals == [msg |-> 0, obj |-> None, om |-> <<>>, cur |-> None, old |-> None]
NoFetch == [st |-> "none", ids |-> <<>>]
NoHandler == [op |-> "none", obj |-> None, res |-> "none"]
NoCalc == [fn |-> "none"]

BotInit ==
    /\ obj_map = <<>>
    /\ code_shown = None
    /\ hide_task = None
    /\ details_msg_id = None
    /\ tasks = {}
    /\ nTasks = 0
    /\ msgs = <<>>
    /\ details = {}
    /\ pc = "idle"
    /\ h = NoLocals
    /\ obs = [fired |-> None, out |-> 0, last_msg |-> 0,
              fetched |-> NoFetch,
              last |-> NoHandler, prev |-> NoHandler, quiet |-> 0,
              gen_task |-> None]

Init == BotInit /\ calc = NoCalc

\* ---------------------------------------------------------- history only
\* obs records, for the properties, what the program did:
\*   fired     the auto_hide_code task that ran in the last step, or None
\*   out       the message the last step rendered (its content is the render
\*             instruction), or 0
\*   last_msg  the message most recently rendered
\*   fetched   what the latest fetch_user_objects returned
\*   last      the latest handler: operation, toggled id, branch it took
\*   prev      the handler before it, if that was a toggle
\*   quiet     how many of the latest handlers (at most 2) have started since
\*             an auto_hide_code task last ran
\*   gen_task  the task created by the latest change of the reveal state, if
\*             that change was a reveal: the timer of the current generation
ObsBegin(op, obj_id, f, res, gen, out) ==
    [fired |-> None, out |-> out,
     last_msg |-> IF out # 0 THEN out ELSE obs.last_msg,
     fetched |-> f,
     last |-> [op |-> op, obj |-> obj_id, res |-> res],
     prev |-> IF obs.last.op = "toggle" THEN obs.last ELSE NoHandler,
     quiet |-> IF obs.quiet >= 1 THEN 2 ELSE 1,
     gen_task |-> gen]

\* The running handler resumes after an await.
ObsCont(res, gen, out) ==
    [obs EXCEPT !.fired = None, !.out = out,
                !.last_msg = IF out # 0 THEN out ELSE @,
                !.last = [obs.last EXCEPT !.res = res], !.gen_task = gen]

\* ------------------------------------------------------------ task helpers
\* Mutant: the stored task is never cancelled.
CancelTask_Forgotten(ts, old_task) == ts

\* "if old_task and not old_task.done(): old_task.cancel()"
CancelTask(ts, old_task) == {t \in ts : t.id # old_task}

\* asyncio.create_task(auto_hide_code(context, chat_id, message_id, obj_id))
NewTask(id, m, obj_id) == [id |-> id, msg |-> m, obj |-> obj_id]

\* Mutant: message_id and obj_id are swapped in the task's test.
TimerHides_SwappedArgs(t) == code_shown = t.msg

\* The test of auto_hide_code after its sleep.
TimerHides(t) == code_shown = t.obj

\* The notice rendered when the fetch returned None (show_no_access_message)
\* or an empty dict, and the name of that outcome in obs.
Notice(f) ==
    Message(IF IsNone(f) THEN "noaccess" ELSE "empty", build_no_access_keyboard)
NoticeRes(f) == IF IsNone(f) THEN f.st ELSE "empty"

\* ------------------------------------------------------------- /start
\* The run may still create k list messages.
MsgRoom(k) == Len(msgs) + k <= MaxMsgs /\ Len(msgs) + k + nTasks <= MaxWork

LoadingMsg == Message("loading", build_no_access_keyboard)

\* start_command, fetch returned None: show_no_access_message replies with a
\* second message (a Message has no edit_message_text); chat_data untouched.
OpenNone(f) ==
    /\ pc = "idle"
    /\ IsNone(f)
    /\ MsgRoom(2)
    /\ LET ms == msgs \o <<LoadingMsg, Notice(f)>>
           m  == Len(ms)
       IN  /\ msgs' = ms
           /\ obs' = ObsBegin("open", None, f, f.st, obs.gen_task, m)
    /\ UNCHANGED <<chat, tasks, nTasks, details, pc, h>>
    /\ UNCHANGED calc

\* start_command, fetch returned an empty dict; chat_data untouched.
OpenEmpty(f) ==
    /\ pc = "idle"
    /\ ~IsNone(f) /\ f.ids = <<>>
    /\ MsgRoom(1)
    /\ LET m  == Len(msgs) + 1
           ms == edit_message_text(Append(msgs, LoadingMsg), m, "empty",
                                   build_no_access_keyboard)
       IN  /\ msgs' = ms
           /\ obs' = ObsBegin("open", None, f, "empty", obs.gen_task, m)
    /\ UNCHANGED <<chat, tasks, nTasks, details, pc, h>>
    /\ UNCHANGED calc

\* start_command, objects found: reset the reveal, cancel the stored task,
\* delete the stored details message (an await), render the list.
OpenList(f) ==
    /\ pc = "idle"
    /\ ~IsNone(f) /\ f.ids # <<>>
    /\ MsgRoom(1)
    /\ obj_map' = f.ids
    /\ code_shown' = None
    /\ tasks' = CancelTask(tasks, hide_task)
    /\ hide_task' = None
    /\ LET m  == Len(msgs) + 1
           ld == Append(msgs, LoadingMsg)
       IN  IF details_msg_id # None
             THEN /\ details' = details \ {details_msg_id}
                  /\ msgs' = ld
                  /\ pc' = "list_del"
                  /\ h' = [NoLocals EXCEPT !.msg = m, !.om = f.ids]
                  /\ obs' = ObsBegin("open", None, f, "list", None, m)
             ELSE /\ details' = details
                  /\ msgs' = edit_message_text(ld, m, "list",
                                               build_keyboard(f.ids, None))
                  /\ pc' = "idle"
                  /\ h' = NoLocals
                  /\ obs' = ObsBegin("open", None, f, "list", None, m)
    /\ UNCHANGED <<details_msg_id, nTasks>>
    /\ UNCHANGED calc

\* start_command / refresh_callback after "await delete_message": forget the
\* details message id and render the list on the handler's message.
ListAfterDelete ==
    /\ pc = "list_del"
    /\ details_msg_id' = None
    /\ msgs' = edit_message_text(msgs, h.msg, "list", build_keyboard(h.om, None))
    /\ pc' = "idle"
    /\ h' = NoLocals
    /\ obs' = ObsCont(obs.last.res, obs.gen_task, h.msg)
    /\ UNCHANGED <<obj_map, code_shown, hide_task, tasks, nTasks, details>>
    /\ UNCHANGED calc

\* ------------------------------------------------------------- refresh
\* refresh_callback / show_code_callback, fetch returned None or an empty
\* dict: the notice is rendered (an await) and chat_data.clear() follows.
NoticeThenClear(op, obj_id, m, f) ==
    /\ pc = "idle"
    /\ IsNone(f) \/ f.ids = <<>>
    /\ msgs[m] # Notice(f)
    /\ msgs' = edit_message_text(msgs, m, Notice(f).text, Notice(f).kb)
    /\ pc' = "clear"
    /\ h' = [NoLocals EXCEPT !.msg = m]
    /\ obs' = ObsBegin(op, obj_id, f, NoticeRes(f), obs.gen_task, m)
    /\ UNCHANGED <<chat, tasks, nTasks, details>>
    /\ UNCHANGED calc

RefreshNone(m, f) ==
    /\ m \in DOMAIN msgs /\ HasRefresh(msgs[m].kb)
    /\ NoticeThenClear("refresh", None, m, f)

\* refresh_callback, same fetch results, on a message that already shows that
\* very notice: the transport rejects the edit ("Message is not modified"),
\* the exception ends the handler and chat_data.clear() is not reached.
RefreshNoneRejected(m, f) ==
    /\ pc = "idle"
    /\ m \in DOMAIN msgs /\ HasRefresh(msgs[m].kb)
    /\ IsNone(f) \/ f.ids = <<>>
    /\ msgs[m] = Notice(f)
    /\ obs' = ObsBegin("refresh", None, f, NoticeRes(f), obs.gen_task, 0)
    /\ UNCHANGED <<chat, tasks, nTasks, msgs, details, pc, h>>
    /\ UNCHANGED calc

\* context.chat_data.clear(): every key is dropped; no task is cancelled.
Clear ==
    /\ pc = "clear"
    /\ obj_map' = <<>>
    /\ code_shown' = None
    /\ hide_task' = None
    /\ details_msg_id' = None
    /\ pc' = "idle"
    /\ h' = NoLocals
    /\ obs' = ObsCont(obs.last.res, None, 0)
    /\ UNCHANGED <<tasks, nTasks, msgs, details>>
    /\ UNCHANGED calc

RefreshList(m, f) ==
    /\ pc = "idle"
    /\ m \in DOMAIN msgs /\ HasRefresh(msgs[m].kb)
    /\ ~IsNone(f) /\ f.ids # <<>>
    /\ obj_map' = f.ids
    /\ code_shown' = None
    /\ tasks' = CancelTask(tasks, hide_task)
    /\ hide_task' = None
    /\ IF details_msg_id # None
         THEN /\ details' = details \ {details_msg_id}
              /\ msgs' = msgs
              /\ pc' = "list_del"
              /\ h' = [NoLocals EXCEPT !.msg = m, !.om = f.ids]
              /\ obs' = ObsBegin("refresh", None, f, "list", None, 0)
         ELSE /\ details' = details
              /\ msgs' = edit_message_text(msgs, m, "list", build_keyboard(f.ids, None))
              /\ pc' = "idle"
              /\ h' = NoLocals
              /\ obs' = ObsBegin("refresh", None, f, "list", None, m)
    /\ UNCHANGED <<details_msg_id, nTasks>>
    /\ UNCHANGED calc

\* -------------------------------------------------------------- toggle
\* A show_<id> callback comes from a button, so from a message whose
\* keyboard offers that id.  The second line caps the reveals of a run.
CanToggle(m, obj_id) ==
    /\ pc = "idle"
    /\ m \in DOMAIN msgs /\ obj_id \in ShowIds(msgs[m].kb)
    /\ nTasks < MaxTasks /\ Len(msgs) + nTasks < MaxWork

ToggleNone(m, obj_id, f) ==
    /\ CanToggle(m, obj_id)
    /\ NoticeThenClear("toggle", obj_id, m, f)

\* show_code_callback, the id is not a key of the fresh dict: the dict is
\* stored, "not found" is rendered without a keyboard, nothing else changes.
ToggleNotFound(m, obj_id, f) ==
    /\ CanToggle(m, obj_id)
    /\ ~IsNone(f) /\ f.ids # <<>> /\ obj_id \notin Keys(f.ids)
    /\ obj_map' = f.ids
    /\ msgs' = edit_message_text(msgs, m, "notfound", <<>>)
    /\ obs' = ObsBegin("toggle", obj_id, f, "notfound", obs.gen_task, m)
    /\ UNCHANGED <<code_shown, hide_task, details_msg_id, tasks, nTasks,
                   details, pc, h>>
    /\ UNCHANGED calc

\* The hide branch and the final render; it has no await before the render.
\* o: the handler's history record after this step.
HideBranch(m, om, old_task, o) ==
    /\ tasks' = CancelTask(tasks, old_task)
    /\ code_shown' = None
    /\ hide_task' = None
    /\ msgs' = edit_message_reply_markup(msgs, m, build_keyboard(om, code_shown'))
    /\ pc' = "idle"
    /\ h' = NoLocals
    /\ obs' = [o EXCEPT !.last.res = "hide", !.gen_task = None,
                        !.out = m, !.last_msg = m]
    /\ UNCHANGED nTasks

\* The reveal branch up to "await send_message": the id is stored, the old
\* task is cancelled, a new auto_hide_code task is created and stored.
RevealBranch(m, obj_id, om, cur, old_task, o) ==
    /\ code_shown' = obj_id
    /\ nTasks' = nTasks + 1
    /\ tasks' = CancelTask(tasks, old_task) \cup {NewTask(nTasks', m, obj_id)}
    /\ hide_task' = nTasks'
    /\ msgs' = msgs
    /\ pc' = "t_send"
    /\ h' = [NoLocals EXCEPT !.msg = m, !.om = om]
    /\ obs' = [o EXCEPT !.last.res = "reveal", !.gen_task = nTasks']

ToggleBranch(m, obj_id, om, cur, old_task, o) ==
    IF cur = obj_id
        THEN HideBranch(m, om, old_task, o)
        ELSE RevealBranch(m, obj_id, om, cur, old_task, o)

\* show_code_callback once the dict om it acts on holds the id: store the
\* dict, read code_shown and hide_task, then either await the deletion of
\* the old details message or go on to the branch at once.
ToggleFoundOn(m, obj_id, f, om) ==
    /\ CanToggle(m, obj_id)
    /\ obj_id \in Keys(om)
    /\ obj_map' = om
    /\ LET o == ObsBegin("toggle", obj_id, f, "pending", obs.gen_task, 0)
       IN  IF details_msg_id # None
             THEN /\ details' = details \ {details_msg_id}
                  /\ pc' = "t_del"
                  /\ h' = [msg |-> m, obj |-> obj_id, om |-> om,
                           cur |-> code_shown, old |-> hide_task]
                  /\ obs' = o
                  /\ UNCHANGED <<code_shown, hide_task, tasks, nTasks, msgs>>
             ELSE /\ details' = details
                  /\ ToggleBranch(m, obj_id, om, code_shown, hide_task, o)
    /\ UNCHANGED <<details_msg_id>>
    /\ UNCHANGED calc

\* Mutant: the toggle trusts the dict cached in chat_data instead of the
\* dict it has just fetched.
ToggleFound_Cached(m, obj_id, f) ==
    ToggleFoundOn(m, obj_id, f, obj_map)

\* show_code_callback, the fetch returned a dict that holds the id: the
\* handler acts on the fresh dict.
ToggleFound(m, obj_id, f) ==
    /\ ~IsNone(f)
    /\ ToggleFoundOn(m, obj_id, f, f.ids)

\* After "await delete_message": the branch is chosen with the values read
\* before the await.
ToggleAfterDelete ==
    /\ pc = "t_del"
    /\ details_msg_id' = None
    /\ ToggleBranch(h.msg, h.obj, h.om, h.cur, h.old,
                    [obs EXCEPT !.fired = None, !.out = 0])
    /\ UNCHANGED <<obj_map, details>>
    /\ UNCHANGED calc

\* After "await send_message": on success the details message is recorded
\* and its deletion task created; then the keyboard is built from
\* chat_data["code_shown"] as it is now, and rendered.
ToggleAfterSend(sent) ==
    /\ pc = "t_send"
    /\ IF sent
         THEN /\ details_msg_id' = nTasks
              /\ details' = details \cup {nTasks}
         ELSE UNCHANGED <<details_msg_id, details>>
    /\ msgs' = edit_message_reply_markup(msgs, h.msg, build_keyboard(h.om, code_shown))
    /\ pc' = "idle"
    /\ h' = NoLocals
    /\ obs' = ObsCont(obs.last.res, obs.gen_task, h.msg)
    /\ UNCHANGED <<obj_map, code_shown, hide_task, tasks, nTasks>>
    /\ UNCHANGED calc

\* ------------------------------------------------------ background tasks
\* auto_hide_code wakes from its sleep; it can run whenever the event loop
\* is free, that is between handlers and at every await of a handler.
TimerFire(t) ==
    /\ t \in tasks
    /\ tasks' = tasks \ {t}
    /\ IF TimerHides(t)
         THEN /\ code_shown' = None
              /\ msgs' = IF obj_map # <<>>
                           THEN edit_message_reply_markup(msgs, t.msg,
                                                          build_keyboard(obj_map, None))
                           ELSE msgs
              /\ obs' = [obs EXCEPT !.fired = t.id, !.quiet = 0, !.gen_task = None,
                                    !.out = IF obj_map # <<>> THEN t.msg ELSE 0,
                                    !.last_msg = IF obj_map # <<>> THEN t.msg ELSE @]
         ELSE /\ UNCHANGED <<code_shown, msgs>>
              /\ obs' = [obs EXCEPT !.fired = t.id, !.quiet = 0, !.out = 0]
    /\ UNCHANGED <<obj_map, hide_task, details_msg_id, nTasks, details, pc, h>>
    /\ UNCHANGED calc

\* delete_details_message wakes from its sleep and deletes its message.  (The
\* task of a message a handler has deleted already fails in delete_message
\* and changes nothing; it is left out.)
DeleteFire(d) ==
    /\ d \in details
    /\ details' = details \ {d}
    /\ obs' = [obs EXCEPT !.fired = None, !.out = 0]
    /\ UNCHANGED <<chat, tasks, nTasks, msgs, pc, h>>
    /\ UNCHANGED calc

\* ------------------------------------------------------------------ spec
Msgs == 1..MaxMsgs

Next ==
    \/ \E f \in FetchResults : OpenNone(f)
    \/ \E f \in FetchResults : OpenEmpty(f)
    \/ \E f \in FetchResults : OpenList(f)
    \/ ListAfterDelete
    \/ \E m \in Msgs, f \in FetchResults : RefreshNone(m, f)
    \/ \E m \in Msgs, f \in FetchResults : RefreshNoneRejected(m, f)
    \/ \E m \in Msgs, f \in FetchResults : RefreshList(m, f)
    \/ Clear
    \/ \E m \in Msgs, o \in Objects, f \in FetchResults : ToggleNone(m, o, f)
    \/ \E m \in Msgs, o \in Objects, f \in FetchResults : ToggleNotFound(m, o, f)
    \/ \E m \in Msgs, o \in Objects, f \in FetchResults : ToggleFound(m, o, f)
    \/ ToggleAfterDelete
    \/ \E sent \in BOOLEAN : ToggleAfterSend(sent)
    \/ \E t \in tasks : TimerFire(t)
    \/ \E d \in details : DeleteFire(d)

Spec == Init /\ [][Next]_vars

\* One call of parse_id_ranges on an arbitrary argument.
ParseInit ==
    /\ BotInit
    /\ calc \in {[fn |-> "parse_id_ranges", arg |-> e, done |-> FALSE, out |-> <<>>] :
                    e \in RangeStrs}

ParseCall ==
    /\ calc.fn = "parse_id_ranges" /\ ~calc.done
    /\ calc' = [calc EXCEPT !.done = TRUE, !.out = parse_id_ranges(calc.arg)]
    /\ UNCHANGED bot

ParseSpec == ParseInit /\ [][ParseCall]_vars

\* One call of fetch_user_objects on an arbitrary sheet.
FetchInit ==
    /\ BotInit
    /\ calc \in {[fn |-> "fetch_user_objects",
                  arg |-> [records |-> rs, raises |-> x],
                  done |-> FALSE, out |-> NoFetch] :
                    rs \in Sheets, x \in BOOLEAN}

FetchCall ==
    /\ calc.fn = "fetch_user_objects" /\ ~calc.done
    /\ calc' = [calc EXCEPT
                  !.done = TRUE,
                  !.out = fetch_user_objects(UserId, calc.arg.records, calc.arg.raises)]
    /\ UNCHANGED bot

FetchSpec == FetchInit /\ [][FetchCall]_vars

\* One call of build_keyboard on an arbitrary dict and revealed id.  The
\* dict is given by its key order and the lengths of its texts.
KeyLists == {ks \in ListsUpTo(1..MaxKeys, MaxKeys) :
                \A i, j \in DOMAIN ks : i # j => ks[i] # ks[j]}

TextLens == {1, MaxTextLen}

ObjData == [1..MaxKeys -> [address : TextLens, code : TextLens]]

KeyboardInit ==
    /\ BotInit
    /\ calc \in {[fn |-> "build_keyboard",
                  arg |-> [obj_map |-> ks, data |-> dt, code_shown_obj_id |-> c],
                  done |-> FALSE, out |-> <<>>] :
                    ks \in KeyLists, dt \in ObjData, c \in 0..MaxKeys}

KeyboardCall ==
    /\ calc.fn = "build_keyboard" /\ ~calc.done
    /\ calc' = [calc EXCEPT
                  !.done = TRUE,
                  !.out = build_keyboard(calc.arg.obj_map, calc.arg.code_shown_obj_id)]
    /\ UNCHANGED bot

KeyboardSpec == KeyboardInit /\ [][KeyboardCall]_vars

\* Scheduling: the event loop runs every task that is ready, so a sleeping
\* task that stays due runs, and a suspended handler resumes.  User events
\* (/start, refresh, toggle) need not happen.
FairSpec ==
    /\ Spec
    /\ WF_vars(\E t \in tasks : TimerFire(t))
    /\ WF_vars(\E d \in details : DeleteFire(d))
    /\ WF_vars(ListAfterDelete)
    /\ WF_vars(Clear)
    /\ WF_vars(ToggleAfterDelete)
    /\ WF_vars(\E sent \in BOOLEAN : ToggleAfterSend(sent))

\* ------------------------------------------------------------ properties
Shown == IF code_shown = None THEN {} ELSE {code_shown}

\* The layout most recently rendered in the chat.
LastLayout == IF obs.last_msg = 0 THEN <<>> ELSE msgs[obs.last_msg].kb

\* The live task of the current generation: scheduled by the latest change
\* of the reveal state, not cancelled, not yet run.
CurrentTimers == {t \in tasks : t.id = obs.gen_task}

\* The two latest handlers were toggles of ids a and b, both fetches found
\* the user authorized and the id present, and no auto_hide_code task has
\* run since the first of them started; both are finished.
TwoToggles(a, b) ==
    /\ pc = "idle"
    /\ obs.prev.op = "toggle" /\ obs.prev.obj = a
    /\ obs.prev.res \in {"hide", "reveal"}
    /\ obs.last.op = "toggle" /\ obs.last.obj = b
    /\ obs.last.res \in {"hide", "reveal"}
    /\ obs.quiet = 2

\* C1: a timer that runs after a later open, refresh or toggle has changed
\* the reveal state (it is not the timer of the current generation) leaves
\* the revealed object unchanged.
C1_StaleTimerIsNoOp ==
    [][(obs'.fired # None /\ obs'.fired # obs.gen_task)
          => code_shown' = code_shown]_vars

\* C2: at most one auto-hide timer is live in every reachable state.
C2_AtMostOneLiveTimer == Cardinality(tasks) <= 1

C4_FetchFailureKeepsState ==
    [][(obs'.last.res = "fail" /\ obs'.fired = None)
          => /\ code_shown' = code_shown
             /\ hide_task' = hide_task
             /\ obs'.out # 0 => msgs'[obs'.out].text # "noaccess"]_vars

\* C5: after an open or refresh that found the user not authorized, no
\* auto-hide timer of the chat is live.
C5_NoAccessCancelsTimer ==
    (/\ pc = "idle"
     /\ obs.last.op \in {"open", "refresh"}
     /\ obs.last.res = "unauth") => tasks = {}

\* C6: a render displays the code of an object only if it is the render of a
\* toggle of that object whose own fetch found the user authorized and the
\* object in the fetched set.
C6_CodeOnlyIfFreshlyAuthorized ==
    obs.out # 0 =>
        \A o \in CodesIn(msgs[obs.out].kb) :
            /\ obs.fired = None
            /\ obs.last.op = "toggle" /\ obs.last.obj = o
            /\ obs.fetched.st = "ok"
            /\ o \in Keys(obs.fetched.ids)

\* C6 witness: a toggle renders a code after a fetch that returned fewer
\* objects than the dict the chat held before.
C6_Witness ==
    /\ obs.out # 0
    /\ CodesIn(msgs[obs.out].kb) # {}
    /\ Len(obs.fetched.ids) < MaxObjects
    /\ \E m \in DOMAIN msgs : Cardinality(ShowIds(msgs[m].kb)) = MaxObjects

ShowsCode(m) == m \in DOMAIN msgs /\ CodesIn(msgs[m].kb) # {}

\* C7: a message that displays a code is eventually rendered without it.
C7_CodeEventuallyHidden ==
    \A m \in Msgs : ShowsCode(m) ~> ~ShowsCode(m)

\* C8: when no handler is running, the layout most recently rendered shows a
\* code for exactly the revealed id, and none when nothing is revealed.
C8_LayoutShowsRevealedId ==
    pc = "idle" => CodesIn(LastLayout) = Shown

C10_SwitchLeavesOneTimer ==
    \A a, b \in Objects :
        (a # b /\ TwoToggles(a, b)) =>
            /\ code_shown = b
            /\ CodesIn(LastLayout) = {b}
            /\ Cardinality(tasks) = 1
            /\ \A t \in tasks : t.obj = b /\ t.id = hide_task

\* ------------------------------------------------- properties of the parser
\* The segments of an expression: the pieces between two neighbouring
\* commas (or an end of the string).
Segments(chars) ==
    LET cuts == {0, Len(chars) + 1} \cup {i \in DOMAIN chars : chars[i] = ","}
    IN  {SubSeq(chars, i + 1, j - 1) :
            <<i, j>> \in {c \in cuts \X cuts :
                            c[1] < c[2] /\ \A k \in cuts : ~(c[1] < k /\ k < c[2])}}

\* An integer as an object id is written: decimal digits, possibly with
\* whitespace around them.
IsNumber(w) == AllDigits(strip(w))
NumberOf(w) == DecimalValue(strip(w))

\* The halves of a segment around one of its hyphens, when both are numbers.
RangeCuts(seg) ==
    {<<NumberOf(SubSeq(seg, 1, i - 1)), NumberOf(SubSeq(seg, i + 1, Len(seg)))>> :
        i \in {j \in DOMAIN seg : seg[j] = "-" /\ IsNumber(SubSeq(seg, 1, j - 1))
                                               /\ IsNumber(SubSeq(seg, j + 1, Len(seg)))}}

\* The ids a segment stands for: a single integer, or the inclusive range
\* start-end with start <= end.
SegmentIds(seg) ==
    (IF IsNumber(seg) THEN {NumberOf(seg)} ELSE {})
        \cup UNION {IF c[1] <= c[2] THEN c[1]..c[2] ELSE {} : c \in RangeCuts(seg)}

ClaimedIds(range_str) ==
    IF range_str.type # "str" THEN {}
    ELSE UNION {SegmentIds(seg) : seg \in Segments(range_str.chars)}

Blank(range_str) ==
    range_str.type # "str" \/ \A i \in DOMAIN range_str.chars : IsSpace(range_str.chars[i])

Parsed == calc.fn = "parse_id_ranges" /\ calc.done

\* C12: the result of parse_id_ranges is strictly ascending (so without
\* duplicates), its elements are exactly the ids of the valid single
\* integers and valid ranges among the comma-separated segments, and a
\* null, non-string, empty or whitespace-only argument gives the empty list.
C12_ParseSortedUnion ==
    Parsed =>
        /\ \A i, j \in DOMAIN calc.out : i < j => calc.out[i] < calc.out[j]
        /\ Elems(calc.out) = ClaimedIds(calc.arg)
        /\ Blank(calc.arg) => calc.out = <<>>

\* C12 witness: "2,1-2" has been parsed: two segments out of order that
\* overlap, giving 1, 2.
C12_Witness ==
    /\ Parsed
    /\ calc.arg = Str(<<"2", ",", "1", "-", "2">>)
    /\ calc.out = <<1, 2>>

\* A segment the claim calls malformed or reversed.
NotAnInteger(seg) == ~Contains(seg, "-") /\ ~IsNumber(seg)
MalformedHalf(seg) == Contains(seg, "-") /\ RangeCuts(seg) = {}
Reversed(seg) == \E c \in RangeCuts(seg) : c[1] > c[2]

\* C13: a segment that is not an integer, a range with a malformed half, or
\* a reversed range, parsed alone, gives the empty list, and the ids of a
\* comma-joined expression are the union of the ids of its segments parsed
\* alone.
C13_SegmentsIndependent ==
    (Parsed /\ calc.arg.type = "str") =>
        LET parts == split(calc.arg.chars, ",")
        IN  /\ \A k \in DOMAIN parts :
                  (NotAnInteger(parts[k]) \/ MalformedHalf(parts[k]) \/ Reversed(parts[k]))
                      => parse_id_ranges(Str(parts[k])) = <<>>
            /\ Elems(calc.out) =
                  UNION {Elems(parse_id_ranges(Str(parts[k]))) : k \in DOMAIN parts}

\* C13 witness: "2-1,1" has been parsed: a reversed range next to a valid
\* segment, giving 1 only.
C13_Witness ==
    /\ Parsed
    /\ calc.arg = Str(<<"2", "-", "1", ",", "1">>)
    /\ calc.out = <<1>>

\* ------------------------------------------------- properties of the lookup
\* The ids of the rows of the catalog.
CatalogIds(records) ==
    {records[i].ID.val : i \in {j \in DOMAIN records : records[j].ID.type = "int"}}

\* C11: for an authorized user, the resolved object list (the keys of the
\* dict, in their order) holds exactly the ids that are in the parsed range
\* expression and in the catalog, each once, in strictly ascending order.
C11_ResolvedListAscending ==
    (calc.fn = "fetch_user_objects" /\ calc.done /\ calc.out.st = "ok") =>
        LET rs == calc.arg.records
            ids == calc.out.ids
            expr == Str(rs[user_record(rs, UserId)].info)
        IN  /\ Elems(ids) = ClaimedIds(expr) \cap CatalogIds(rs)
            /\ \A i, j \in DOMAIN ids : i < j => ids[i] < ids[j]

\* ------------------------------------------------- properties of the layout
Built == calc.fn = "build_keyboard" /\ calc.done

\* The rows of a layout one after the other.
RECURSIVE Flatten(_)
Flatten(rows) == IF rows = <<>> THEN <<>> ELSE Head(rows) \o Flatten(Tail(rows))

\* C14: for every label budget, a button whose label is longer than the
\* budget is alone in its row, so a label within the budget shares a row
\* only with a label within the budget.
C14_LongLabelAlone ==
    Built =>
        \A budget \in 1..(MaxTextLen + CODE_LABEL_EXTRA) :
            \A r \in DOMAIN calc.out :
                (\E c \in DOMAIN calc.out[r] :
                    button_text_len(calc.out[r][c], calc.arg.data) > budget)
                        => Len(calc.out[r]) = 1

\* C17: the object buttons, read row by row, are the objects in input
\* order, one button each, labelled for the revealed id, and the last row
\* is the refresh button alone.
C17_InputOrderThenRefresh ==
    Built =>
        LET rows == calc.out
            om == calc.arg.obj_map
        IN  /\ rows # <<>>
            /\ rows[Len(rows)] = <<RefreshButton>>
            /\ Flatten(SubSeq(rows, 1, Len(rows) - 1)) =
                  [i \in DOMAIN om |-> ObjButton(om[i], calc.arg.code_shown_obj_id)]

\* C17 witness: a layout built for three objects that are not in id order,
\* the second one revealed.
C17_Witness ==
    /\ Built
    /\ calc.arg.obj_map = <<3, 1, 2>>
    /\ calc.arg.code_shown_obj_id = 1
    /\ Len(calc.out) = 3

\* ----------------------------------------- further properties of the session
\* C15: right after a toggle whose id is not a key of the freshly fetched
\* dict, no code is revealed and no auto-hide timer of the chat is live.
C15_NotFoundResets ==
    (pc = "idle" /\ obs.out # 0 /\ obs.fired = None
        /\ obs.last.op = "toggle" /\ obs.last.res = "notfound")
            => code_shown = None /\ tasks = {}

\* C16: while a toggle is suspended between reading code_shown and
\* hide_task and writing its result, the values it read are still the
\* values in chat_data.
C16_ToggleReadsStillCurrent ==
    pc = "t_del" => h.cur = code_shown /\ h.old = hide_task

\* C18: when no handler is running, a revealed id is a key of the stored
\* obj_map.
C18_RevealedIdInObjMap ==
    (pc = "idle" /\ code_shown # None) => code_shown \in Keys(obj_map)

\* C19: at most one details message of the chat is undeleted.  (The claim's
\* second half, that every details message is eventually deleted, rests on
\* delete_details_message alone.)
C19_OneDetailsMessage == Cardinality(details) <= 1
====
